---- MODULE Spec2Model ----
(***************************************************************************)
(* Task dependency management of the agent communication MCP server        *)
(* (src/src/task-dependencies.ts, src/schema.sql).                         *)
(*                                                                         *)
(* The handlers addTaskDependency, removeTaskDependency and                *)
(* listTaskDependencies are async functions: every `await database.x()`    *)
(* is one storage call, and one step of the model.  Synchronous code       *)
(* between two storage calls belongs to the step of the storage call that  *)
(* precedes it.  Several callers share the one store.                      *)
(***************************************************************************)
EXTENDS Integers, FiniteSets, Sequences, Bags

(* Number of rows of the tasks table; AUTO_INCREMENT gave them 1..NumTasks *)
NumTasks == 3

(* Callers whose requests the server has in flight *)
Callers == {"c1", "c2"}

(* Calls a run of the concurrent specification starts *)
MaxConcCalls == 3

(* task ids a request can carry: 0 and NumTasks + 1 name no task *)
ArgIds == 0..(NumTasks + 1)

(* Depth at which the model stops following the recursion of               *)
(* hasCircularDependency: a chain of more than NumTasks existing tasks     *)
(* repeats a task.                                                         *)
MaxDepth == NumTasks + 1

VARIABLES
  tasks,    \* task_id of the rows of table tasks
  edges,    \* rows of table task_dependencies: a bag of (task_id, depends_on_task_id)
  pc,       \* per caller: the storage call its handler awaits next
  req,      \* per caller: the tool called and its arguments
  stack,    \* per caller: the frames of hasCircularDependency, innermost last
  res,      \* per caller: what the handler returned or threw
  io,       \* per caller: storage calls issued by the running handler
  last,     \* the mutation that returned successfully just before the running call
  scen,     \* how much of the documented scenario the calls so far have followed
  started,  \* calls started (counted by the concurrent specification only)
  requestHandlers, \* of the server: per request method, the component whose handler is set
  reply,    \* per caller: the answer of the server to its last tool request
  agents,   \* rows of table agents: a bag of agent records
  createAgentCalls, \* per caller: the records its running handler passed to createAgent
  now,      \* what new Date() returns
  shared_context, \* rows of table shared_context
  agent_context_access, \* rows of table agent_context_access
  messages, \* rows of table messages
  auto_increment \* per table: the AUTO_INCREMENT id given out last

(* the tables and the clock that the task dependency handlers never touch *)
stores ==
  <<agents, createAgentCalls, now, shared_context, agent_context_access, messages,
    auto_increment>>

vars == <<tasks, edges, pc, req, stack, res, io, last, scen, started,
          requestHandlers, reply, stores>>

-----------------------------------------------------------------------------
(* Rows and results *)

Edge(a, b) == [task_id |-> a, depends_on_task_id |-> b]

NoReq == [op |-> "none", task_id |-> 0, depends_on_task_id |-> 0]

NoIo == [lookups |-> 0, reads |-> 0, writes |-> 0, thrown |-> 0]

Result(kind, id) ==
  [kind |-> kind, id |-> id, dependencies |-> EmptyBag, dependents |-> EmptyBag]

NoRes == Result("none", 0 - 1)

Ok == Result("ok", 0 - 1)

(* McpError(InvalidParams, 'Invalid task dependency arguments') *)
InvalidArgument == Result("InvalidArgument", 0 - 1)

(* McpError(InvalidParams, `Task with ID ${id} not found`) *)
TaskNotFound(id) == Result("NotFound", id)

(* McpError(InvalidParams, `Dependency between task ... not found`) *)
DependencyNotFound == Result("NotFound", 0 - 1)

(* McpError(InvalidParams, 'Adding this dependency would create a circular dependency') *)
CyclicDependency == Result("CyclicDependency", 0 - 1)

(* McpError(InternalError, `Failed to ...: ${message}`): a storage call threw *)
InternalError == Result("InternalError", 0 - 1)

-----------------------------------------------------------------------------
(* Storage layer: tables tasks and task_dependencies *)

(* SELECT * FROM tasks WHERE task_id = ?  (null when no row) *)
getTask(taskId) == taskId \in tasks

(* the rows of bag rows in set keep, with their multiplicity *)
Rows(rows, keep) == [r \in keep |-> rows[r]]

(* rows whose task_id is taskId: what taskId depends on *)
getTaskDependencies(taskId) ==
  Rows(edges, {r \in BagToSet(edges) : r.task_id = taskId})

(* rows whose depends_on_task_id is taskId: what depends on taskId *)
getTaskDependents(taskId) ==
  Rows(edges, {r \in BagToSet(edges) : r.depends_on_task_id = taskId})

(* the row of the pair, or null *)
getTaskDependency(taskId, dependsOnTaskId) ==
  BagIn(Edge(taskId, dependsOnTaskId), edges)

(* a table without the unique key: every insert of a pair is accepted *)
unique_dependency_dropped(row) == TRUE

(* UNIQUE KEY unique_dependency (task_id, depends_on_task_id) *)
unique_dependency(row) == ~BagIn(row, edges)

(* a table without the foreign keys: a row may name any task id *)
foreign_keys_dropped(row) == TRUE

(* FOREIGN KEY (task_id), (depends_on_task_id) REFERENCES tasks(task_id) *)
foreign_keys(row) == row.task_id \in tasks /\ row.depends_on_task_id \in tasks

(* INSERT INTO task_dependencies: accepted iff the constraints hold *)
InsertAccepted(row) == unique_dependency(row) /\ foreign_keys(row)

(* the table after INSERT INTO task_dependencies of an accepted row *)
createTaskDependency(row) == edges (+) SetToBag({row})

(* DELETE FROM task_dependencies WHERE task_id = ? AND depends_on_task_id = ? *)
deleteTaskDependency(taskId, dependsOnTaskId) ==
  Rows(edges, {r \in BagToSet(edges) : r # Edge(taskId, dependsOnTaskId)})

-----------------------------------------------------------------------------
(* The server and the components that register their tools on it *)

(* ListToolsRequestSchema, CallToolRequestSchema *)
Methods == {"ListTools", "CallTool"}

(* the order of setupRequestHandlers *)
setupRequestHandlers ==
  <<"AgentRegistry", "MessageBus", "TaskManagement", "ContextSharing",
    "GitHubIntegration">>

AgentRegistryTools ==
  {"register_agent", "update_agent", "get_agent", "list_agents", "search_agents",
   "ping_agent"}

MessageBusTools ==
  {"send_message", "get_messages", "mark_message_read", "delete_message"}

TaskManagementTools ==
  {"create_task", "assign_task", "update_task_status", "get_task", "list_tasks"}

ContextSharingTools ==
  {"create_context", "update_context", "share_context", "get_context",
   "list_contexts"}

GitHubIntegrationTools ==
  {"github_create_issue", "github_comment_issue", "github_create_pr",
   "github_review_pr"}

TaskDependencyManagerTools ==
  {"add_task_dependency", "remove_task_dependency", "list_task_dependencies"}

(* the tools of the ListTools handler and of the switch of the CallTool      *)
(* handler that a component registers                                        *)
Tools(component) ==
  CASE component = "AgentRegistry" -> AgentRegistryTools
    [] component = "MessageBus" -> MessageBusTools
    [] component = "TaskManagement" -> TaskManagementTools
    [] component = "ContextSharing" -> ContextSharingTools
    [] component = "GitHubIntegration" -> GitHubIntegrationTools
    [] component = "TaskDependencyManager" -> TaskDependencyManagerTools
    [] OTHER -> {}

(* the tools listed under API Endpoints *)
ApiEndpoints ==
  {"register_agent", "update_agent", "get_agent", "list_agents",
   "send_message", "get_messages", "mark_message_read", "delete_message",
   "create_task", "assign_task", "update_task_status", "get_task", "list_tasks",
   "create_context", "update_context", "share_context", "get_context",
   "list_contexts",
   "github_create_issue", "github_comment_issue", "github_create_pr",
   "github_review_pr"}

(* names a call-tool request may carry *)
ToolNames ==
  UNION {Tools(setupRequestHandlers[i]) : i \in 1..Len(setupRequestHandlers)}
    \cup TaskDependencyManagerTools \cup {"no_such_tool"}

NoReply ==
  [method |-> "none", name |-> "none", kind |-> "none", component |-> "none",
   tools |-> {}]

(* server.setRequestHandler(schema, handler): the handler of the method is   *)
(* set, in place of the one set before                                       *)
setRequestHandler(handlers, method, component) ==
  [handlers EXCEPT ![method] = component]

-----------------------------------------------------------------------------
(* The tables of the other components, empty *)
EmptyStores ==
  /\ agents = EmptyBag
  /\ createAgentCalls = [p \in Callers |-> <<>>]
  /\ now = 0
  /\ shared_context = {}
  /\ agent_context_access = {}
  /\ messages = {}
  /\ auto_increment = [shared_context |-> 0, messages |-> 0]

-----------------------------------------------------------------------------
Init ==
  /\ tasks = 1..NumTasks
  /\ edges = EmptyBag
  /\ pc = [p \in Callers |-> "idle"]
  /\ req = [p \in Callers |-> NoReq]
  /\ stack = [p \in Callers |-> <<>>]
  /\ res = [p \in Callers |-> NoRes]
  /\ io = [p \in Callers |-> NoIo]
  /\ last = NoReq
  /\ scen = 0
  /\ started = 0
  /\ requestHandlers = [m \in Methods |-> "TaskDependencyManager"]
  /\ reply = [p \in Callers |-> NoReply]
  /\ EmptyStores

-----------------------------------------------------------------------------
(* Synchronous code of the handlers *)

IsNumber(v) == v \in Int

(* a validation that forgets that a task cannot depend on itself *)
isValidTaskDependencyArgs_selfAllowed(args) ==
  /\ IsNumber(args.task_id)
  /\ IsNumber(args.depends_on_task_id)

(* isValidTaskDependencyArgs: two numbers, and a task cannot depend on itself *)
isValidTaskDependencyArgs(args) ==
  /\ IsNumber(args.task_id)
  /\ IsNumber(args.depends_on_task_id)
  /\ args.task_id # args.depends_on_task_id

(* listTaskDependencies: !args.task_id || typeof args.task_id !== 'number' *)
isValidListArgs(args) == ~(args.task_id = 0 \/ ~IsNumber(args.task_id))

(* The call addTaskDependency makes:                                       *)
(*   hasCircularDependency(args.depends_on_task_id, args.task_id)          *)
(* binds parameter taskId to depends_on_task_id and parameter              *)
(* dependsOnTaskId, the task whose rows are read first, to task_id.        *)
CircularCheckCall(args) ==
  [taskId |-> args.depends_on_task_id, dependsOnTaskId |-> args.task_id]

(* a call of hasCircularDependency that has not read its rows yet *)
Frame(node) == [dependsOnTaskId |-> node, todo |-> {}, pending |-> TRUE]

(* dependencies.some((dep) => dep.depends_on_task_id === taskId) *)
SomeDependsOn(dependencies, taskId) ==
  \E dep \in BagToSet(dependencies) : dep.depends_on_task_id = taskId

(* the tasks the for loop of hasCircularDependency recurses into *)
LoopTargets(dependencies) ==
  {dep.depends_on_task_id : dep \in BagToSet(dependencies)}

(* frames whose for loop is finished return false to their caller *)
RECURSIVE ReturnFalse(_)
ReturnFalse(st) ==
  IF st = <<>> THEN st
  ELSE IF st[Len(st)].todo = {} THEN ReturnFalse(SubSeq(st, 1, Len(st) - 1))
  ELSE st

(* the next iteration of the innermost unfinished for loop calls           *)
(* hasCircularDependency(taskId, next)                                     *)
Recurse(st, next) ==
  LET top == st[Len(st)]
  IN Append([st EXCEPT ![Len(st)].todo = top.todo \ {next}], Frame(next))

Count(p, field) == [io EXCEPT ![p][field] = io[p][field] + 1]

(* a storage call that threw *)
CountThrown(p, field) ==
  [io EXCEPT ![p][field] = io[p][field] + 1, ![p].thrown = io[p].thrown + 1]

Finish(p, result) ==
  /\ pc' = [pc EXCEPT ![p] = "done"]
  /\ res' = [res EXCEPT ![p] = result]

Goto(p, label) ==
  /\ pc' = [pc EXCEPT ![p] = label]
  /\ UNCHANGED res

-----------------------------------------------------------------------------
(* The documented scenario: add(1,2), add(2,3), add(3,1), add(1,1),        *)
(* remove(1,2), add(3,1)                                                   *)

Request(op, a, b) == [op |-> op, task_id |-> a, depends_on_task_id |-> b]

Scenario ==
  << Request("add", 1, 2), Request("add", 2, 3), Request("add", 3, 1),
     Request("add", 1, 1), Request("remove", 1, 2), Request("add", 3, 1) >>

(* position in the scenario after request r starts; -1 once a run left it *)
Follow(r) ==
  IF scen >= 0 /\ scen < Len(Scenario) /\ Scenario[scen + 1] = r
  THEN scen + 1 ELSE 0 - 1

-----------------------------------------------------------------------------
(* A request arrives: the handler runs up to its first storage call *)

Begin(p, r, valid, first) ==
  /\ pc[p] = "idle"
  /\ req' = [req EXCEPT ![p] = r]
  /\ IF valid THEN Goto(p, first) ELSE Finish(p, InvalidArgument)
  /\ scen' = Follow(r)
  /\ UNCHANGED <<stores, requestHandlers, reply, tasks, edges, stack, io>>

addTaskDependency(p, a, b) ==
  LET args == Request("add", a, b)
  IN /\ Begin(p, args, isValidTaskDependencyArgs(args), "add_getTask")
     /\ last' = NoReq

removeTaskDependency(p, a, b) ==
  LET args == Request("remove", a, b)
  IN /\ Begin(p, args, isValidTaskDependencyArgs(args), "remove_getTaskDependency")
     /\ last' = NoReq

listTaskDependencies(p, t) ==
  LET args == Request("list", t, 0)
  IN /\ Begin(p, args, isValidListArgs(args), "list_getTask")
     /\ UNCHANGED last

-----------------------------------------------------------------------------
(* addTaskDependency, one storage call per step *)

(* a handler that looks the dependency task up first *)
AddGetTask_dependencyFirst(p) ==
  /\ pc[p] = "add_getTask"
  /\ io' = Count(p, "lookups")
  /\ IF getTask(req[p].depends_on_task_id)
     THEN Goto(p, "add_getDependencyTask")
     ELSE Finish(p, TaskNotFound(req[p].depends_on_task_id))
  /\ UNCHANGED <<stores, requestHandlers, reply, tasks, edges, req, stack, last, scen, started>>

(* const task = await this.database.getTask(args.task_id) *)
AddGetTask(p) ==
  /\ pc[p] = "add_getTask"
  /\ io' = Count(p, "lookups")
  /\ IF getTask(req[p].task_id)
     THEN Goto(p, "add_getDependencyTask")
     ELSE Finish(p, TaskNotFound(req[p].task_id))
  /\ UNCHANGED <<stores, requestHandlers, reply, tasks, edges, req, stack, last, scen, started>>

(* a handler that looks the dependency task up and never tests the result *)
AddGetDependencyTask_unchecked(p) ==
  /\ pc[p] = "add_getDependencyTask"
  /\ io' = Count(p, "lookups")
  /\ Goto(p, "add_hasCircularDependency")
  /\ stack' = [stack EXCEPT ![p] = <<Frame(CircularCheckCall(req[p]).dependsOnTaskId)>>]
  /\ UNCHANGED <<stores, requestHandlers, reply, tasks, edges, req, last, scen, started>>

(* a handler that inserts the row before it checks for a cycle *)
AddGetDependencyTask_insertFirst(p) ==
  /\ pc[p] = "add_getDependencyTask"
  /\ io' = Count(p, "lookups")
  /\ IF getTask(req[p].depends_on_task_id)
     THEN /\ Goto(p, "add_hasCircularDependency")
          /\ stack' = [stack EXCEPT ![p] = <<Frame(CircularCheckCall(req[p]).dependsOnTaskId)>>]
          /\ edges' = createTaskDependency(Edge(req[p].task_id, req[p].depends_on_task_id))
     ELSE /\ Finish(p, TaskNotFound(req[p].depends_on_task_id))
          /\ UNCHANGED <<stack, edges>>
  /\ UNCHANGED <<stores, requestHandlers, reply, tasks, req, last, scen, started>>

(* const dependencyTask = await this.database.getTask(args.depends_on_task_id) *)
AddGetDependencyTask(p) ==
  /\ pc[p] = "add_getDependencyTask"
  /\ io' = Count(p, "lookups")
  /\ IF getTask(req[p].depends_on_task_id)
     THEN /\ Goto(p, "add_hasCircularDependency")
          /\ stack' = [stack EXCEPT ![p] = <<Frame(CircularCheckCall(req[p]).dependsOnTaskId)>>]
     ELSE /\ Finish(p, TaskNotFound(req[p].depends_on_task_id))
          /\ UNCHANGED stack
  /\ UNCHANGED <<stores, requestHandlers, reply, tasks, edges, req, last, scen, started>>

(* const dependencies = await this.database.getTaskDependencies(dependsOnTaskId) *)
(* in the innermost call of hasCircularDependency, then its synchronous code up  *)
(* to the next storage call: true unwinds every caller, false resumes the loop   *)
(* of the caller, and the verdict of the outermost call decides the handler.     *)
AddHasCircularDependency(p) ==
  /\ pc[p] = "add_hasCircularDependency"
  /\ io' = Count(p, "reads")
  /\ LET n == Len(stack[p])
         dependencies == getTaskDependencies(stack[p][n].dependsOnTaskId)
         read == [stack[p] EXCEPT ![n].todo = LoopTargets(dependencies),
                                  ![n].pending = FALSE]
         rest == ReturnFalse(read)
     IN IF SomeDependsOn(dependencies, CircularCheckCall(req[p]).taskId)
        THEN /\ Finish(p, CyclicDependency)
             /\ stack' = [stack EXCEPT ![p] = <<>>]
        ELSE IF rest = <<>>
        THEN /\ Goto(p, "add_createTaskDependency")
             /\ stack' = [stack EXCEPT ![p] = <<>>]
        ELSE /\ Len(rest) < MaxDepth
             /\ Goto(p, "add_hasCircularDependency")
             /\ \E next \in rest[Len(rest)].todo :
                  stack' = [stack EXCEPT ![p] = Recurse(rest, next)]
  /\ UNCHANGED <<stores, requestHandlers, reply, tasks, edges, req, last, scen, started>>

(* an add whose insert of a stored pair is ignored and reported as created *)
AddCreateTaskDependency_ignoring(p) ==
  /\ pc[p] = "add_createTaskDependency"
  /\ LET row == Edge(req[p].task_id, req[p].depends_on_task_id)
     IN IF InsertAccepted(row)
        THEN /\ edges' = createTaskDependency(row)
             /\ io' = Count(p, "writes")
             /\ Finish(p, Ok)
        ELSE /\ UNCHANGED edges
             /\ io' = Count(p, "writes")
             /\ Finish(p, Ok)
  /\ UNCHANGED <<stores, requestHandlers, reply, tasks, req, stack, last, scen, started>>

(* an add that stores the row and its reverse *)
AddCreateTaskDependency_mirrored(p) ==
  /\ pc[p] = "add_createTaskDependency"
  /\ LET row == Edge(req[p].task_id, req[p].depends_on_task_id)
     IN IF InsertAccepted(row)
        THEN /\ edges' = createTaskDependency(row)
                            (+) SetToBag({Edge(row.depends_on_task_id, row.task_id)})
             /\ io' = Count(p, "writes")
             /\ Finish(p, Ok)
        ELSE /\ UNCHANGED edges
             /\ io' = CountThrown(p, "writes")
             /\ Finish(p, InternalError)
  /\ UNCHANGED <<stores, requestHandlers, reply, tasks, req, stack, last, scen, started>>

(* const dependencyId = await this.database.createTaskDependency(dependency) *)
AddCreateTaskDependency(p) ==
  /\ pc[p] = "add_createTaskDependency"
  /\ LET row == Edge(req[p].task_id, req[p].depends_on_task_id)
     IN IF InsertAccepted(row)
        THEN /\ edges' = createTaskDependency(row)
             /\ io' = Count(p, "writes")
             /\ Finish(p, Ok)
        ELSE /\ UNCHANGED edges
             /\ io' = CountThrown(p, "writes")
             /\ Finish(p, InternalError)
  /\ UNCHANGED <<stores, requestHandlers, reply, tasks, req, stack, last, scen, started>>

-----------------------------------------------------------------------------
(* removeTaskDependency *)

(* a handler that reads the row and deletes without testing that it exists *)
RemoveGetTaskDependency_unchecked(p) ==
  /\ pc[p] = "remove_getTaskDependency"
  /\ io' = Count(p, "reads")
  /\ Goto(p, "remove_deleteTaskDependency")
  /\ UNCHANGED <<stores, requestHandlers, reply, tasks, edges, req, stack, last, scen, started>>

(* const dependency = await this.database.getTaskDependency(task_id, depends_on_task_id) *)
RemoveGetTaskDependency(p) ==
  /\ pc[p] = "remove_getTaskDependency"
  /\ io' = Count(p, "reads")
  /\ IF getTaskDependency(req[p].task_id, req[p].depends_on_task_id)
     THEN Goto(p, "remove_deleteTaskDependency")
     ELSE Finish(p, DependencyNotFound)
  /\ UNCHANGED <<stores, requestHandlers, reply, tasks, edges, req, stack, last, scen, started>>

(* a removal that also deletes the other rows of task_id *)
RemoveDeleteTaskDependency_cascading(p) ==
  /\ pc[p] = "remove_deleteTaskDependency"
  /\ io' = Count(p, "writes")
  /\ edges' = Rows(edges, {r \in BagToSet(edges) : r.task_id # req[p].task_id})
  /\ Finish(p, Ok)
  /\ UNCHANGED <<stores, requestHandlers, reply, tasks, req, stack, last, scen, started>>

(* await this.database.deleteTaskDependency(task_id, depends_on_task_id) *)
RemoveDeleteTaskDependency(p) ==
  /\ pc[p] = "remove_deleteTaskDependency"
  /\ io' = Count(p, "writes")
  /\ edges' = deleteTaskDependency(req[p].task_id, req[p].depends_on_task_id)
  /\ Finish(p, Ok)
  /\ UNCHANGED <<stores, requestHandlers, reply, tasks, req, stack, last, scen, started>>

-----------------------------------------------------------------------------
(* listTaskDependencies *)

(* const task = await this.database.getTask(args.task_id) *)
ListGetTask(p) ==
  /\ pc[p] = "list_getTask"
  /\ io' = Count(p, "lookups")
  /\ IF getTask(req[p].task_id)
     THEN Goto(p, "list_getTaskDependencies")
     ELSE Finish(p, TaskNotFound(req[p].task_id))
  /\ UNCHANGED <<stores, requestHandlers, reply, tasks, edges, req, stack, last, scen, started>>

(* a listing that also returns the rows of the tasks the task depends on *)
ListGetTaskDependencies_flattened(p) ==
  /\ pc[p] = "list_getTaskDependencies"
  /\ io' = Count(p, "reads")
  /\ pc' = [pc EXCEPT ![p] = "list_getTaskDependents"]
  /\ LET direct == LoopTargets(getTaskDependencies(req[p].task_id))
     IN res' = [res EXCEPT ![p].dependencies =
                  Rows(edges, {r \in BagToSet(edges) :
                                 r.task_id \in direct \cup {req[p].task_id}})]
  /\ UNCHANGED <<stores, requestHandlers, reply, tasks, edges, req, stack, last, scen, started>>

(* const dependencies = await this.database.getTaskDependencies(args.task_id) *)
ListGetTaskDependencies(p) ==
  /\ pc[p] = "list_getTaskDependencies"
  /\ io' = Count(p, "reads")
  /\ pc' = [pc EXCEPT ![p] = "list_getTaskDependents"]
  /\ res' = [res EXCEPT ![p].dependencies = getTaskDependencies(req[p].task_id)]
  /\ UNCHANGED <<stores, requestHandlers, reply, tasks, edges, req, stack, last, scen, started>>

(* a response with the two listings exchanged *)
ListResponse_swapped(dependencies, dependents) ==
  [Ok EXCEPT !.dependencies = dependents, !.dependents = dependencies]

(* the response of listTaskDependencies *)
ListResponse(dependencies, dependents) ==
  [Ok EXCEPT !.dependencies = dependencies, !.dependents = dependents]

(* const dependents = await this.database.getTaskDependents(args.task_id) *)
ListGetTaskDependents(p) ==
  /\ pc[p] = "list_getTaskDependents"
  /\ io' = Count(p, "reads")
  /\ Finish(p, ListResponse(res[p].dependencies, getTaskDependents(req[p].task_id)))
  /\ UNCHANGED <<stores, requestHandlers, reply, tasks, edges, req, stack, last, scen, started>>

-----------------------------------------------------------------------------
(* The response or the error reaches the caller *)

Return(p) ==
  /\ pc[p] = "done"
  /\ pc' = [pc EXCEPT ![p] = "idle"]
  /\ last' = IF res[p].kind = "ok" /\ req[p].op \in {"add", "remove"}
             THEN req[p] ELSE NoReq
  /\ req' = [req EXCEPT ![p] = NoReq]
  /\ res' = [res EXCEPT ![p] = NoRes]
  /\ io' = [io EXCEPT ![p] = NoIo]
  /\ UNCHANGED <<stores, requestHandlers, reply, tasks, edges, stack, scen, started>>

Step(p) ==
  \/ AddGetTask(p)
  \/ AddGetDependencyTask(p)
  \/ AddHasCircularDependency(p)
  \/ AddCreateTaskDependency(p)
  \/ RemoveGetTaskDependency(p)
  \/ RemoveDeleteTaskDependency(p)
  \/ ListGetTask(p)
  \/ ListGetTaskDependencies(p)
  \/ ListGetTaskDependents(p)
  \/ Return(p)

(* Requests are dispatched one at a time: each runs to completion *)
NoneInFlight == \A q \in Callers : pc[q] = "idle"

Dispatched == NoneInFlight /\ UNCHANGED started

DispatchAdd(p) == Dispatched /\ \E a, b \in ArgIds : addTaskDependency(p, a, b)

DispatchRemove(p) == Dispatched /\ \E a, b \in ArgIds : removeTaskDependency(p, a, b)

DispatchList(p) == Dispatched /\ \E t \in ArgIds : listTaskDependencies(p, t)

Next ==
  \E p \in Callers :
    \/ DispatchAdd(p)
    \/ DispatchRemove(p)
    \/ DispatchList(p)
    \/ Step(p)

Spec == Init /\ [][Next]_vars

(* caller p is the only one with a request in flight *)
NoneInFlightBut(p) == \A q \in Callers \ {p} : pc[q] = "idle"

-----------------------------------------------------------------------------
(* The store can fail: any awaited storage call may throw.  The statement   *)
(* of a call that throws is not applied.  The catch block of the handler    *)
(* wraps the error in McpError(InternalError, ...) and rethrows.            *)

(* the counter of the storage call awaited at a label *)
Awaited(label) ==
  CASE label \in {"add_getTask", "add_getDependencyTask", "list_getTask"} -> "lookups"
    [] label \in {"add_createTaskDependency", "remove_deleteTaskDependency"} -> "writes"
    [] OTHER -> "reads"

(* a handler that catches the error and awaits the same storage call again *)
Throw_retried(p) ==
  /\ pc[p] \notin {"idle", "done"}
  /\ io' = CountThrown(p, Awaited(pc[p]))
  /\ UNCHANGED <<stores, requestHandlers, reply, tasks, edges, pc, req, stack, res, last, scen, started>>

Throw(p) ==
  /\ pc[p] \notin {"idle", "done"}
  /\ io' = CountThrown(p, Awaited(pc[p]))
  /\ Finish(p, InternalError)
  /\ stack' = [stack EXCEPT ![p] = <<>>]
  /\ UNCHANGED <<stores, requestHandlers, reply, tasks, edges, req, last, scen, started>>

NextFault ==
  \E p \in Callers :
    \/ DispatchAdd(p)
    \/ DispatchRemove(p)
    \/ DispatchList(p)
    \/ Step(p)
    \/ Throw(p)

SpecFault == Init /\ [][NextFault]_vars

-----------------------------------------------------------------------------
(* Tasks are deleted while requests are served.  The handlers of this       *)
(* component never delete a task; the row of tasks goes away by a statement *)
(* of another component, at any moment between two storage calls.           *)

(* DELETE FROM tasks WHERE task_id = t, with ON DELETE CASCADE on both       *)
(* columns of task_dependencies                                             *)
DeleteTask(t) ==
  /\ t \in tasks
  /\ tasks' = tasks \ {t}
  /\ edges' = Rows(edges, {r \in BagToSet(edges) :
                             r.task_id # t /\ r.depends_on_task_id # t})
  /\ UNCHANGED <<stores, requestHandlers, reply, pc, req, stack, res, io, last, scen, started>>

(* requests that name tasks which exist or were deleted *)
CascadeAdd(p) ==
  Dispatched /\ \E a, b \in 1..NumTasks : addTaskDependency(p, a, b)

CascadeRemove(p) ==
  Dispatched /\ \E a, b \in 1..NumTasks : removeTaskDependency(p, a, b)

CascadeList(p) ==
  Dispatched /\ \E t \in 1..NumTasks : listTaskDependencies(p, t)

NextCascade ==
  \/ \E p \in Callers :
       \/ CascadeAdd(p)
       \/ CascadeRemove(p)
       \/ CascadeList(p)
       \/ Step(p)
  \/ \E t \in 1..NumTasks : DeleteTask(t)

SpecCascade == Init /\ [][NextCascade]_vars

-----------------------------------------------------------------------------
(* The server of index.ts: the constructor calls setupRequestHandlers, then  *)
(* run() connects the transport and requests arrive.                         *)

InitServer ==
  /\ tasks = 1..NumTasks
  /\ edges = EmptyBag
  /\ pc = [p \in Callers |-> "idle"]
  /\ req = [p \in Callers |-> NoReq]
  /\ stack = [p \in Callers |-> <<>>]
  /\ res = [p \in Callers |-> NoRes]
  /\ io = [p \in Callers |-> NoIo]
  /\ last = NoReq
  /\ scen = 0
  /\ started = 0
  /\ requestHandlers = [m \in Methods |-> "none"]
  /\ reply = [p \in Callers |-> NoReply]
  /\ EmptyStores

(* components whose registerHandlers has been called *)
Registered ==
  IF requestHandlers["CallTool"] = "none" THEN 0
  ELSE CHOOSE i \in 1..Len(setupRequestHandlers) :
         setupRequestHandlers[i] = requestHandlers["CallTool"]

(* component.registerHandlers(this.server), in the order of the setup *)
registerHandlers(component) ==
  /\ Registered < Len(setupRequestHandlers)
  /\ component = setupRequestHandlers[Registered + 1]
  /\ requestHandlers' =
       setRequestHandler(setRequestHandler(requestHandlers, "ListTools", component),
                         "CallTool", component)
  /\ UNCHANGED <<stores, reply, tasks, edges, pc, req, stack, res, io, last, scen, started>>

(* await this.server.connect(transport), after the constructor *)
Connected == Registered = Len(setupRequestHandlers)

(* a call-tool request: the handler set for CallTool switches on the name *)
CallToolRequest(p, name) ==
  /\ Connected
  /\ LET component == requestHandlers["CallTool"]
     IN reply' = [reply EXCEPT ![p] =
                    [method |-> "CallTool", name |-> name,
                     kind |-> IF name \in Tools(component)
                              THEN "routed" ELSE "MethodNotFound",
                     component |-> component, tools |-> {}]]
  /\ UNCHANGED <<stores, requestHandlers, tasks, edges, pc, req, stack, res, io, last,
                 scen, started>>

(* a list-tools request: the handler set for ListTools returns its tools *)
ListToolsRequest(p) ==
  /\ Connected
  /\ LET component == requestHandlers["ListTools"]
     IN reply' = [reply EXCEPT ![p] =
                    [method |-> "ListTools", name |-> "none", kind |-> "tools",
                     component |-> component, tools |-> Tools(component)]]
  /\ UNCHANGED <<stores, requestHandlers, tasks, edges, pc, req, stack, res, io, last,
                 scen, started>>

NextServer ==
  \/ \E i \in 1..Len(setupRequestHandlers) : registerHandlers(setupRequestHandlers[i])
  \/ \E p \in Callers :
       \/ \E name \in ToolNames : CallToolRequest(p, name)
       \/ ListToolsRequest(p)

SpecServer == InitServer /\ [][NextServer]_vars

-----------------------------------------------------------------------------
(* The component starts on a table that holds any rows the schema allows    *)
(* between the tasks (each pair once; the rows may form directed cycles),   *)
(* as left by an earlier run or by another writer of the table.            *)

InitAnyGraph ==
  /\ tasks = 1..NumTasks
  /\ \E E \in SUBSET {Edge(a, b) : a, b \in 1..NumTasks} :
       /\ \A e \in E : e.task_id # e.depends_on_task_id
       /\ edges = SetToBag(E)
  /\ pc = [p \in Callers |-> "idle"]
  /\ req = [p \in Callers |-> NoReq]
  /\ stack = [p \in Callers |-> <<>>]
  /\ res = [p \in Callers |-> NoRes]
  /\ io = [p \in Callers |-> NoIo]
  /\ last = NoReq
  /\ scen = 0 - 1
  /\ started = 0
  /\ requestHandlers = [m \in Methods |-> "TaskDependencyManager"]
  /\ reply = [p \in Callers |-> NoReply]
  /\ EmptyStores

SpecAnyGraph == InitAnyGraph /\ [][Next]_vars

-----------------------------------------------------------------------------
(* The agent registry.  Argument values carry their JavaScript type.        *)

MaxClock == 2
MaxCalls == 3

Undefined == [type |-> "undefined", value |-> ""]
String(v) == [type |-> "string", value |-> v]
Number(v) == [type |-> "number", value |-> v]
Object(v) == [type |-> "object", value |-> v]

IsString(x) == x.type = "string"

(* !x is false *)
Truthy(x) == x.type # "undefined" /\ x.value # ""

AgentIds == {"a1", "a2"}

Capability(name, description, version) ==
  [name |-> name, description |-> description, version |-> version]

(* capabilities a register_agent request may carry: none, one with name and  *)
(* description, one without description, one whose version is a number       *)
CapabilityLists ==
  { <<>>,
    <<Capability(String("c"), String("d"), Undefined)>>,
    <<Capability(String("c"), Undefined, Undefined)>>,
    <<Capability(String("c"), String("d"), Number("1"))>> }

(* McpError(InvalidParams, ...) of the registry, and its success payload *)
InvalidParams(message) == [kind |-> "InvalidParams", message |-> message]

Failed == [kind |-> "InternalError", message |-> "failed"]

(* { content: [{ type: 'text', text: JSON.stringify(value) }] } *)
TextContent(value) ==
  [kind |-> "ok", content |-> <<[type |-> "text", text |-> [json |-> value]]>>]

(* isValidRegisterAgentArgs *)
isValidRegisterAgentArgs(args) ==
  /\ IsString(args.agent_id)
  /\ IsString(args.name)
  /\ Len(args.capabilities) > 0
  /\ IsString(args.system)
  /\ (args.metadata = Undefined \/ args.metadata.type = "object")

(* validateCapabilities *)
validateCapabilities(capabilities) ==
  /\ Len(capabilities) > 0
  /\ \A i \in 1..Len(capabilities) :
       /\ IsString(capabilities[i].name)
       /\ IsString(capabilities[i].description)
       /\ (capabilities[i].version = Undefined \/ IsString(capabilities[i].version))

(* SELECT * FROM agents WHERE agent_id = ?  (rows.length > 0) *)
getAgent(agentId) == \E row \in BagToSet(agents) : row.agent_id = agentId

(* the columns of INSERT INTO agents *)
AgentColumns ==
  {"agent_id", "name", "capabilities", "system", "status", "last_active",
   "created_at"}

(* a table without the primary key *)
agents_primary_key_dropped(row) == TRUE

(* agent_id VARCHAR(255) PRIMARY KEY *)
agents_primary_key(row) == ~getAgent(row.agent_id)

(* the table after INSERT INTO agents (...) VALUES (...) of the agent *)
createAgent(agent) ==
  agents (+) SetToBag({[c \in AgentColumns |-> agent[c]]})

(* UPDATE agents SET name = ?, status = ?, last_active = ? WHERE agent_id = ? *)
Database_updateAgent(agentId, updates) ==
  LET Updated(row) ==
        IF row.agent_id # agentId THEN row
        ELSE [row EXCEPT
                !.name = IF Truthy(updates.name) THEN updates.name ELSE @,
                !.status = IF Truthy(updates.status) THEN updates.status.value ELSE @,
                !.last_active = updates.last_active]
      U == {Updated(row) : row \in BagToSet(agents)}
  IN [r \in U |-> 1]

(* the Agent object registerAgent builds *)
NewAgent(args) ==
  [agent_id |-> args.agent_id.value,
   name |-> args.name,
   capabilities |-> args.capabilities,
   system |-> args.system,
   status |-> "active",
   last_active |-> now,
   created_at |-> now,
   metadata |-> IF Truthy(args.metadata) THEN args.metadata ELSE Object("{}")]

(* the tasks tables and the server, which the other components leave alone *)
taskStores == <<tasks, edges, stack, last, scen, requestHandlers, reply>>

(* a tool call arrives; the handler validates and runs to its first await *)
Call(p, args, valid, first) ==
  /\ pc[p] = "idle"
  /\ started < MaxCalls
  /\ started' = started + 1
  /\ req' = [req EXCEPT ![p] = args]
  /\ createAgentCalls' = [createAgentCalls EXCEPT ![p] = <<>>]
  /\ IF valid THEN Goto(p, first)
     ELSE Finish(p, InvalidParams("invalid arguments"))
  /\ UNCHANGED <<io, taskStores>>

RegisterArgs ==
  [op : {"register_agent"},
   agent_id : {String(a) : a \in AgentIds} \cup {Undefined},
   name : {String("n1")},
   capabilities : CapabilityLists,
   system : {String("s1")},
   metadata : {Undefined}]

registerAgent(p) ==
  \E args \in RegisterArgs :
    /\ Call(p, args, isValidRegisterAgentArgs(args), "register_getAgent")
    /\ UNCHANGED <<agents, now, shared_context, agent_context_access, messages,
                   auto_increment>>

(* const existingAgent = await this.database.getAgent(args.agent_id), then   *)
(* validateCapabilities, the Agent object and the call of createAgent        *)
RegisterGetAgent(p) ==
  /\ pc[p] = "register_getAgent"
  /\ io' = Count(p, "lookups")
  /\ IF getAgent(req[p].agent_id.value)
     THEN /\ Finish(p, InvalidParams("already exists"))
          /\ UNCHANGED createAgentCalls
     ELSE IF ~validateCapabilities(req[p].capabilities)
     THEN /\ Finish(p, InvalidParams("invalid capabilities"))
          /\ UNCHANGED createAgentCalls
     ELSE /\ Goto(p, "register_createAgent")
          /\ createAgentCalls' =
               [createAgentCalls EXCEPT ![p] = Append(@, NewAgent(req[p]))]
  /\ UNCHANGED <<req, started, agents, now, shared_context, agent_context_access,
                 messages, auto_increment, taskStores>>

(* await this.database.createAgent(agent) and the returned content *)
RegisterCreateAgent(p) ==
  /\ pc[p] = "register_createAgent"
  /\ LET agent == createAgentCalls[p][Len(createAgentCalls[p])]
     IN IF agents_primary_key(agent)
        THEN /\ agents' = createAgent(agent)
             /\ io' = Count(p, "writes")
             /\ Finish(p, TextContent(agent))
        ELSE /\ UNCHANGED agents
             /\ io' = CountThrown(p, "writes")
             /\ Finish(p, Failed)
  /\ UNCHANGED <<req, started, createAgentCalls, now, shared_context,
                 agent_context_access, messages, auto_increment, taskStores>>

UpdateArgs ==
  [op : {"update_agent"},
   agent_id : {String(a) : a \in AgentIds} \cup {Undefined},
   name : {Undefined, String("n2")},
   status : {Undefined, String("inactive")}]

updateAgent(p) ==
  \E args \in UpdateArgs :
    /\ Call(p, args, Truthy(args.agent_id), "update_getAgent")
    /\ UNCHANGED <<agents, now, shared_context, agent_context_access, messages,
                   auto_increment>>

(* const existingAgent = await this.database.getAgent(args.agent_id) *)
UpdateGetAgent(p) ==
  /\ pc[p] = "update_getAgent"
  /\ io' = Count(p, "lookups")
  /\ IF getAgent(req[p].agent_id.value)
     THEN Goto(p, "update_updateAgent")
     ELSE Finish(p, InvalidParams("not found"))
  /\ UNCHANGED <<req, started, stores, taskStores>>

(* await this.database.updateAgent(args.agent_id, updatedAgent) *)
UpdateUpdateAgent(p) ==
  /\ pc[p] = "update_updateAgent"
  /\ io' = Count(p, "writes")
  /\ agents' = Database_updateAgent(req[p].agent_id.value,
                  [name |-> req[p].name, status |-> req[p].status,
                   last_active |-> now])
  /\ Goto(p, "update_getUpdatedAgent")
  /\ UNCHANGED <<req, started, createAgentCalls, now, shared_context,
                 agent_context_access, messages, auto_increment, taskStores>>

(* const agent = await this.database.getAgent(args.agent_id) and the content *)
UpdateGetUpdatedAgent(p) ==
  /\ pc[p] = "update_getUpdatedAgent"
  /\ io' = Count(p, "lookups")
  /\ Finish(p, TextContent({row \in BagToSet(agents) :
                              row.agent_id = req[p].agent_id.value}))
  /\ UNCHANGED <<req, started, stores, taskStores>>

(* time passes *)
Tick ==
  /\ now < MaxClock
  /\ now' = now + 1
  /\ UNCHANGED <<pc, req, res, io, started, agents, createAgentCalls,
                 shared_context, agent_context_access, messages, auto_increment,
                 taskStores>>

NextAgents ==
  \/ \E p \in Callers :
       \/ registerAgent(p)
       \/ RegisterGetAgent(p)
       \/ RegisterCreateAgent(p)
       \/ updateAgent(p)
       \/ UpdateGetAgent(p)
       \/ UpdateUpdateAgent(p)
       \/ UpdateGetUpdatedAgent(p)
       \/ Return(p)
  \/ Tick

SpecAgents == Init /\ [][NextAgents]_vars

-----------------------------------------------------------------------------
(* Context sharing, with the agents a1 and a2 registered and a store that   *)
(* can fail: any awaited storage call may throw, its statement not applied. *)

RegisteredAgent(a) ==
  [agent_id |-> a, name |-> String("n1"),
   capabilities |-> <<Capability(String("c"), String("d"), Undefined)>>,
   system |-> String("s1"), status |-> "active", last_active |-> 0,
   created_at |-> 0]

InitRegistered ==
  /\ tasks = 1..NumTasks
  /\ edges = EmptyBag
  /\ pc = [p \in Callers |-> "idle"]
  /\ req = [p \in Callers |-> NoReq]
  /\ stack = [p \in Callers |-> <<>>]
  /\ res = [p \in Callers |-> NoRes]
  /\ io = [p \in Callers |-> NoIo]
  /\ last = NoReq
  /\ scen = 0
  /\ started = 0
  /\ requestHandlers = [m \in Methods |-> "none"]
  /\ reply = [p \in Callers |-> NoReply]
  /\ agents = SetToBag({RegisteredAgent(a) : a \in AgentIds})
  /\ createAgentCalls = [p \in Callers |-> <<>>]
  /\ now = 0
  /\ shared_context = {}
  /\ agent_context_access = {}
  /\ messages = {}
  /\ auto_increment = [shared_context |-> 0, messages |-> 0]

(* agent ids a request may name: the registered ones and one that is not *)
NamedAgents == {String(a) : a \in AgentIds} \cup {String("a3"), Undefined}

(* SELECT * FROM shared_context WHERE context_id = ?  (rows.length > 0) *)
getContext(contextId) == \E row \in shared_context : row.context_id = contextId

(* INSERT INTO shared_context: the row gets the next AUTO_INCREMENT id *)
Database_createContext(context) ==
  LET contextId == auto_increment.shared_context + 1
  IN /\ shared_context' =
          shared_context \cup {[context_id |-> contextId,
                                created_by |-> context.created_by,
                                content |-> context.content]}
     /\ auto_increment' = [auto_increment EXCEPT !.shared_context = contextId]

(* UPDATE shared_context SET content = ?, updated_at = ? WHERE context_id = ? *)
Database_updateContext(contextId, content) ==
  {IF row.context_id = contextId THEN [row EXCEPT !.content = content] ELSE row :
     row \in shared_context}

(* INSERT INTO agent_context_access ... ON DUPLICATE KEY UPDATE access_level *)
Database_shareContext(contextAccess) ==
  {row \in agent_context_access :
     ~(/\ row.agent_id = contextAccess.agent_id
       /\ row.context_id = contextAccess.context_id)}
    \cup {contextAccess}

isValidCreateContextArgs(args) ==
  IsString(args.title) /\ IsString(args.content) /\ IsString(args.created_by)

isValidUpdateContextArgs(args) ==
  args.context_id.type = "number" /\ IsString(args.content)

isValidShareContextArgs(args) ==
  /\ args.context_id.type = "number"
  /\ IsString(args.agent_id)
  /\ IsString(args.access_level)
  /\ args.access_level.value \in {"read", "write"}

(* what the context handlers leave alone *)
contextFrame == <<agents, createAgentCalls, now, messages, taskStores>>

CreateContextArgs ==
  [op : {"create_context"}, title : {String("t")}, content : {String("v1")},
   created_by : NamedAgents]

createContext(p) ==
  \E args \in CreateContextArgs :
    /\ Call(p, args, isValidCreateContextArgs(args), "createContext_getAgent")
    /\ UNCHANGED <<agents, now, shared_context, agent_context_access, messages,
                   auto_increment>>

(* const creatorAgent = await this.database.getAgent(args.created_by) *)
CreateContextGetAgent(p) ==
  /\ pc[p] = "createContext_getAgent"
  /\ io' = Count(p, "lookups")
  /\ IF getAgent(req[p].created_by.value)
     THEN Goto(p, "createContext_createContext")
     ELSE Finish(p, InvalidParams("creator not found"))
  /\ UNCHANGED <<req, started, shared_context, agent_context_access,
                 auto_increment, contextFrame>>

(* const contextId = await this.database.createContext(context) *)
CreateContextCreateContext(p) ==
  /\ pc[p] = "createContext_createContext"
  /\ io' = Count(p, "writes")
  /\ Database_createContext([created_by |-> req[p].created_by.value,
                             content |-> req[p].content.value])
  /\ req' = [req EXCEPT ![p] =
               [op |-> @.op, title |-> @.title, content |-> @.content,
                created_by |-> @.created_by,
                contextId |-> auto_increment.shared_context + 1]]
  /\ Goto(p, "createContext_shareContext")
  /\ UNCHANGED <<started, agent_context_access, contextFrame>>

(* await this.database.shareContext({ agent_id: args.created_by, context_id: *)
(* contextId, access_level: 'write' }) and the returned content              *)
CreateContextShareContext(p) ==
  /\ pc[p] = "createContext_shareContext"
  /\ io' = Count(p, "writes")
  /\ agent_context_access' =
       Database_shareContext([agent_id |-> req[p].created_by.value,
                              context_id |-> req[p].contextId,
                              access_level |-> "write"])
  /\ Finish(p, TextContent([context_id |-> req[p].contextId]))
  /\ UNCHANGED <<req, started, shared_context, auto_increment, contextFrame>>

ContextIds == {Number(1), Number(2), Undefined}

UpdateContextArgs ==
  [op : {"update_context"}, context_id : ContextIds, content : {String("v2")}]

updateContext(p) ==
  \E args \in UpdateContextArgs :
    /\ Call(p, args, isValidUpdateContextArgs(args), "updateContext_getContext")
    /\ UNCHANGED <<agents, now, shared_context, agent_context_access, messages,
                   auto_increment>>

(* const context = await this.database.getContext(args.context_id) *)
UpdateContextGetContext(p) ==
  /\ pc[p] = "updateContext_getContext"
  /\ io' = Count(p, "lookups")
  /\ IF getContext(req[p].context_id.value)
     THEN Goto(p, "updateContext_updateContext")
     ELSE Finish(p, InvalidParams("context not found"))
  /\ UNCHANGED <<req, started, shared_context, agent_context_access,
                 auto_increment, contextFrame>>

(* await this.database.updateContext(args.context_id, args.content) *)
UpdateContextUpdateContext(p) ==
  /\ pc[p] = "updateContext_updateContext"
  /\ io' = Count(p, "writes")
  /\ shared_context' =
       Database_updateContext(req[p].context_id.value, req[p].content.value)
  /\ Goto(p, "updateContext_getUpdatedContext")
  /\ UNCHANGED <<req, started, agent_context_access, auto_increment, contextFrame>>

(* const updatedContext = await this.database.getContext(args.context_id) *)
UpdateContextGetUpdatedContext(p) ==
  /\ pc[p] = "updateContext_getUpdatedContext"
  /\ io' = Count(p, "lookups")
  /\ Finish(p, TextContent({row \in shared_context :
                              row.context_id = req[p].context_id.value}))
  /\ UNCHANGED <<req, started, shared_context, agent_context_access,
                 auto_increment, contextFrame>>

ShareContextArgs ==
  [op : {"share_context"}, context_id : ContextIds,
   agent_id : NamedAgents,
   access_level : {String("read"), String("write"), String("admin")}]

shareContext(p) ==
  \E args \in ShareContextArgs :
    /\ Call(p, args, isValidShareContextArgs(args), "shareContext_getContext")
    /\ UNCHANGED <<agents, now, shared_context, agent_context_access, messages,
                   auto_increment>>

(* const context = await this.database.getContext(args.context_id) *)
ShareContextGetContext(p) ==
  /\ pc[p] = "shareContext_getContext"
  /\ io' = Count(p, "lookups")
  /\ IF getContext(req[p].context_id.value)
     THEN Goto(p, "shareContext_getAgent")
     ELSE Finish(p, InvalidParams("context not found"))
  /\ UNCHANGED <<req, started, shared_context, agent_context_access,
                 auto_increment, contextFrame>>

(* const agent = await this.database.getAgent(args.agent_id) *)
ShareContextGetAgent(p) ==
  /\ pc[p] = "shareContext_getAgent"
  /\ io' = Count(p, "lookups")
  /\ IF getAgent(req[p].agent_id.value)
     THEN Goto(p, "shareContext_shareContext")
     ELSE Finish(p, InvalidParams("agent not found"))
  /\ UNCHANGED <<req, started, shared_context, agent_context_access,
                 auto_increment, contextFrame>>

(* await this.database.shareContext(contextAccess) and the returned content *)
ShareContextShareContext(p) ==
  /\ pc[p] = "shareContext_shareContext"
  /\ io' = Count(p, "writes")
  /\ LET contextAccess == [agent_id |-> req[p].agent_id.value,
                           context_id |-> req[p].context_id.value,
                           access_level |-> req[p].access_level.value]
     IN /\ agent_context_access' = Database_shareContext(contextAccess)
        /\ Finish(p, TextContent(contextAccess))
  /\ UNCHANGED <<req, started, shared_context, auto_increment, contextFrame>>

(* the storage call a context handler awaits throws: the catch block wraps   *)
(* the error in McpError(InternalError, ...)                                 *)
ContextStorageThrows(p) ==
  /\ pc[p] \in {"createContext_getAgent", "createContext_createContext",
                "createContext_shareContext", "updateContext_getContext",
                "updateContext_updateContext", "updateContext_getUpdatedContext",
                "shareContext_getContext", "shareContext_getAgent",
                "shareContext_shareContext"}
  /\ io' = [io EXCEPT ![p].thrown = @ + 1]
  /\ Finish(p, Failed)
  /\ UNCHANGED <<req, started, shared_context, agent_context_access,
                 auto_increment, contextFrame>>

NextContexts ==
  \E p \in Callers :
    \/ createContext(p)
    \/ CreateContextGetAgent(p)
    \/ CreateContextCreateContext(p)
    \/ CreateContextShareContext(p)
    \/ updateContext(p)
    \/ UpdateContextGetContext(p)
    \/ UpdateContextUpdateContext(p)
    \/ UpdateContextGetUpdatedContext(p)
    \/ shareContext(p)
    \/ ShareContextGetContext(p)
    \/ ShareContextGetAgent(p)
    \/ ShareContextShareContext(p)
    \/ ContextStorageThrows(p)
    \/ Return(p)

SpecContexts == InitRegistered /\ [][NextContexts]_vars

-----------------------------------------------------------------------------
(* The message bus, with the agents a1 and a2 registered *)

(* INSERT INTO messages: the row gets the next AUTO_INCREMENT id *)
createMessage(message) ==
  LET messageId == auto_increment.messages + 1
  IN /\ messages' =
          messages \cup {[message_id |-> messageId,
                          from_agent_id |-> message.from_agent_id,
                          to_agent_id |-> message.to_agent_id,
                          read_status |-> message.read_status]}
     /\ auto_increment' = [auto_increment EXCEPT !.messages = messageId]

(* SELECT * FROM messages WHERE to_agent_id = ? *)
Database_getMessages(agentId) == {row \in messages : row.to_agent_id = agentId}

(* an update that flips read_status *)
Database_markMessageRead_toggling(messageId) ==
  {IF row.message_id = messageId
   THEN [row EXCEPT !.read_status = ~row.read_status] ELSE row : row \in messages}

(* UPDATE messages SET read_status = 1 WHERE message_id = ? *)
Database_markMessageRead(messageId) ==
  {IF row.message_id = messageId
   THEN [row EXCEPT !.read_status = TRUE] ELSE row : row \in messages}

(* DELETE FROM messages WHERE message_id = ? *)
Database_deleteMessage(messageId) ==
  {row \in messages : row.message_id # messageId}

isValidSendMessageArgs(args) ==
  /\ IsString(args.from_agent_id)
  /\ IsString(args.to_agent_id)
  /\ IsString(args.message)
  /\ (args.priority = Undefined \/ args.priority.value \in {"low", "medium", "high"})

(* !args.message_id || typeof args.message_id !== 'number' is false *)
isValidMessageId(args) ==
  args.message_id.type = "number" /\ args.message_id.value # 0

(* what the message handlers leave alone *)
messageFrame ==
  <<agents, createAgentCalls, now, shared_context, agent_context_access, taskStores>>

SendMessageArgs ==
  [op : {"send_message"}, from_agent_id : NamedAgents, to_agent_id : NamedAgents,
   message : {String("m")}, priority : {Undefined}]

sendMessage(p) ==
  \E args \in SendMessageArgs :
    /\ Call(p, args, isValidSendMessageArgs(args), "sendMessage_getSender")
    /\ UNCHANGED <<agents, now, shared_context, agent_context_access, messages,
                   auto_increment>>

(* const senderAgent = await this.database.getAgent(args.from_agent_id) *)
SendMessageGetSender(p) ==
  /\ pc[p] = "sendMessage_getSender"
  /\ io' = Count(p, "lookups")
  /\ IF getAgent(req[p].from_agent_id.value)
     THEN Goto(p, "sendMessage_getRecipient")
     ELSE Finish(p, InvalidParams("sender not found"))
  /\ UNCHANGED <<req, started, messages, auto_increment, messageFrame>>

(* const recipientAgent = await this.database.getAgent(args.to_agent_id) *)
SendMessageGetRecipient(p) ==
  /\ pc[p] = "sendMessage_getRecipient"
  /\ io' = Count(p, "lookups")
  /\ IF getAgent(req[p].to_agent_id.value)
     THEN Goto(p, "sendMessage_createMessage")
     ELSE Finish(p, InvalidParams("recipient not found"))
  /\ UNCHANGED <<req, started, messages, auto_increment, messageFrame>>

(* const messageId = await this.database.createMessage(message) *)
SendMessageCreateMessage(p) ==
  /\ pc[p] = "sendMessage_createMessage"
  /\ io' = Count(p, "writes")
  /\ createMessage([from_agent_id |-> req[p].from_agent_id.value,
                    to_agent_id |-> req[p].to_agent_id.value,
                    read_status |-> FALSE])
  /\ Finish(p, TextContent([message_id |-> auto_increment.messages + 1]))
  /\ UNCHANGED <<req, started, messageFrame>>

MessageIds == {Number(0), Number(1), Number(2), Undefined}

markMessageRead(p) ==
  \E args \in [op : {"mark_message_read"}, message_id : MessageIds] :
    /\ Call(p, args, isValidMessageId(args), "markMessageRead_markMessageRead")
    /\ UNCHANGED <<agents, now, shared_context, agent_context_access, messages,
                   auto_increment>>

(* await this.database.markMessageRead(args.message_id) *)
MarkMessageReadMarkMessageRead(p) ==
  /\ pc[p] = "markMessageRead_markMessageRead"
  /\ io' = Count(p, "writes")
  /\ messages' = Database_markMessageRead(req[p].message_id.value)
  /\ Finish(p, TextContent([success |-> TRUE, message_id |-> req[p].message_id.value]))
  /\ UNCHANGED <<req, started, auto_increment, messageFrame>>

deleteMessage(p) ==
  \E args \in [op : {"delete_message"}, message_id : MessageIds] :
    /\ Call(p, args, isValidMessageId(args), "deleteMessage_deleteMessage")
    /\ UNCHANGED <<agents, now, shared_context, agent_context_access, messages,
                   auto_increment>>

(* await this.database.deleteMessage(args.message_id) *)
DeleteMessageDeleteMessage(p) ==
  /\ pc[p] = "deleteMessage_deleteMessage"
  /\ io' = Count(p, "writes")
  /\ messages' = Database_deleteMessage(req[p].message_id.value)
  /\ Finish(p, TextContent([success |-> TRUE, message_id |-> req[p].message_id.value]))
  /\ UNCHANGED <<req, started, auto_increment, messageFrame>>

getMessages(p) ==
  \E args \in [op : {"get_messages"}, agent_id : NamedAgents] :
    /\ Call(p, args, Truthy(args.agent_id), "getMessages_getAgent")
    /\ UNCHANGED <<agents, now, shared_context, agent_context_access, messages,
                   auto_increment>>

(* const agent = await this.database.getAgent(args.agent_id) *)
GetMessagesGetAgent(p) ==
  /\ pc[p] = "getMessages_getAgent"
  /\ io' = Count(p, "lookups")
  /\ IF getAgent(req[p].agent_id.value)
     THEN Goto(p, "getMessages_getMessages")
     ELSE Finish(p, InvalidParams("agent not found"))
  /\ UNCHANGED <<req, started, messages, auto_increment, messageFrame>>

(* const messages = await this.database.getMessages(args.agent_id, ...) *)
GetMessagesGetMessages(p) ==
  /\ pc[p] = "getMessages_getMessages"
  /\ io' = Count(p, "reads")
  /\ Finish(p, TextContent(Database_getMessages(req[p].agent_id.value)))
  /\ UNCHANGED <<req, started, messages, auto_increment, messageFrame>>

NextMessages ==
  \E p \in Callers :
    \/ sendMessage(p)
    \/ SendMessageGetSender(p)
    \/ SendMessageGetRecipient(p)
    \/ SendMessageCreateMessage(p)
    \/ markMessageRead(p)
    \/ MarkMessageReadMarkMessageRead(p)
    \/ deleteMessage(p)
    \/ DeleteMessageDeleteMessage(p)
    \/ getMessages(p)
    \/ GetMessagesGetAgent(p)
    \/ GetMessagesGetMessages(p)
    \/ Return(p)

SpecMessages == InitRegistered /\ [][NextMessages]_vars

(* Different callers issue well-formed requests while others are in flight *)
Arrived == started < MaxConcCalls /\ started' = started + 1

ArriveAdd(p) == Arrived /\ \E a, b \in tasks : addTaskDependency(p, a, b)

ArriveRemove(p) == Arrived /\ \E a, b \in tasks : removeTaskDependency(p, a, b)

ArriveList(p) == Arrived /\ \E t \in tasks : listTaskDependencies(p, t)

NextConc ==
  \E p \in Callers :
    \/ ArriveAdd(p)
    \/ ArriveRemove(p)
    \/ ArriveList(p)
    \/ Step(p)

SpecConc == Init /\ [][NextConc]_vars

-----------------------------------------------------------------------------
TypeOK ==
  /\ tasks \subseteq 1..NumTasks
  /\ IsABag(edges)
  /\ \A p \in Callers : Len(stack[p]) <= MaxDepth
  /\ scen \in (0 - 1)..Len(Scenario)

-----------------------------------------------------------------------------
(* Vocabulary of the properties *)

Stored == BagToSet(edges)

(* tasks reachable from the tasks of S through one or more edges of E, with S *)
RECURSIVE Closure(_, _)
Closure(E, S) ==
  LET N == S \cup {e.depends_on_task_id : e \in {x \in E : x.task_id \in S}}
  IN IF N = S THEN S ELSE Closure(E, N)

(* x reaches y by following one or more edges task_id -> depends_on_task_id *)
Reaches(E, x, y) ==
  y \in Closure(E, {e.depends_on_task_id : e \in {x1 \in E : x1.task_id = x}})

Acyclic(E) == \A e \in E : ~Reaches(E, e.task_id, e.task_id)

(* this step ends the handler of caller p *)
Completes(p) == pc[p] # "done" /\ pc'[p] = "done"

(* this step ends an add(A, B) of caller p with A, B distinct existing tasks *)
CompletesValidAdd(p) ==
  /\ Completes(p)
  /\ req'[p].op = "add"
  /\ req'[p].task_id # req'[p].depends_on_task_id
  /\ req'[p].task_id \in tasks
  /\ req'[p].depends_on_task_id \in tasks

Arg(p) == Edge(req[p].task_id, req[p].depends_on_task_id)

-----------------------------------------------------------------------------
(* C1: after any sequence of add and remove calls, each run to completion   *)
(* before the next starts, no task reaches itself through the stored edges. *)
C1_Acyclicity == Acyclic(Stored)

(* C2: when B already reaches A through the stored edges, add(A, B) with A  *)
(* and B distinct existing tasks fails with CyclicDependency, issues no     *)
(* insert and leaves the edge set unchanged.                                *)
C2_CycleRejection ==
  [][\A p \in Callers :
       (/\ CompletesValidAdd(p)
        /\ Reaches(Stored, req'[p].depends_on_task_id, req'[p].task_id))
       => /\ res'[p].kind = "CyclicDependency"
          /\ io'[p].writes = 0
          /\ edges' = edges]_vars

(* C3: when (A, B) is not stored and B does not reach A, add(A, B) with A   *)
(* and B distinct existing tasks succeeds and the edge set becomes the old  *)
(* one plus exactly (A, B).                                                 *)
C3_NoFalseRejection ==
  [][\A p \in Callers :
       (/\ CompletesValidAdd(p)
        /\ Arg(p)' \notin Stored
        /\ ~Reaches(Stored, req'[p].depends_on_task_id, req'[p].task_id))
       => /\ res'[p].kind = "ok"
          /\ edges' = edges (+) SetToBag({Arg(p)'})]_vars

(* C4: add(X, X) fails with InvalidArgument for every id X, existing or not, *)
(* before any task lookup, edge read or write, with the edge set unchanged;  *)
(* and no stored edge has task_id = depends_on_task_id.                      *)
C4_NoSelfLoops ==
  /\ [](\A p \in Callers :
          (req[p].op = "add" /\ req[p].task_id = req[p].depends_on_task_id)
          => pc[p] = "done" /\ res[p] = InvalidArgument /\ io[p] = NoIo)
  /\ [](\A e \in Stored : e.task_id # e.depends_on_task_id)
  /\ [][\A p \in Callers :
          (req'[p].op = "add" /\ req'[p].task_id = req'[p].depends_on_task_id)
          => edges' = edges]_vars

(* add(X, X) for an X that names no task has returned InvalidArgument *)
C4_Witness ==
  \E p \in Callers :
    /\ pc[p] = "done"
    /\ req[p].op = "add"
    /\ req[p].task_id = req[p].depends_on_task_id
    /\ req[p].task_id \notin tasks
    /\ res[p].kind = "InvalidArgument"

(* C5: add(A, B) with A # B and A or B absent from the task store fails with *)
(* NotFound naming a missing id, issues no insert and leaves the edge set    *)
(* unchanged.                                                                *)
C5_ExistencePrecondition ==
  [][\A p \in Callers :
       (/\ Completes(p)
        /\ req'[p].op = "add"
        /\ req'[p].task_id # req'[p].depends_on_task_id
        /\ {req'[p].task_id, req'[p].depends_on_task_id} \ tasks # {})
       => /\ res'[p].kind = "NotFound"
          /\ res'[p].id \in {req'[p].task_id, req'[p].depends_on_task_id} \ tasks
          /\ io'[p].writes = 0
          /\ edges' = edges]_vars

(* add(A, B) with A existing and B missing has returned NotFound naming B *)
C5_Witness ==
  \E p \in Callers :
    /\ pc[p] = "done"
    /\ req[p].op = "add"
    /\ req[p].task_id \in tasks
    /\ req[p].depends_on_task_id \notin tasks
    /\ res[p] = TaskNotFound(req[p].depends_on_task_id)
    /\ io[p].lookups = 2

(* C6: in every reachable state, also under concurrent callers and when      *)
(* add(A, B) is called while (A, B) is stored, each ordered pair             *)
(* (task_id, depends_on_task_id) has at most one stored edge.                *)
C6_EdgeUniqueness == \A e \in Stored : CopiesIn(e, edges) <= 1

(* an insert of a pair that is already stored has been refused by the store *)
C6_Witness ==
  \E p \in Callers :
    /\ pc[p] = "done"
    /\ req[p].op = "add"
    /\ io[p].writes = 1
    /\ res[p].kind = "InternalError"
    /\ CopiesIn(Arg(p), edges) = 1

(* C7: add(A, B) called while (A, B) is stored, A and B distinct existing    *)
(* tasks, ends as a no-op success or as a Conflict failure, never as another *)
(* error kind, and leaves the edge set unchanged.                            *)
C7_DuplicatePolicy ==
  [][\A p \in Callers :
       (CompletesValidAdd(p) /\ Arg(p)' \in Stored)
       => /\ res'[p].kind \in {"ok", "Conflict"}
          /\ edges' = edges]_vars

(* C8: with tasks 1, 2, 3 and no edges, the calls add(1,2), add(2,3),        *)
(* add(3,1), add(1,1), remove(1,2), add(3,1) in this order end in success,   *)
(* success, CyclicDependency, InvalidArgument, success, success, and leave   *)
(* exactly the edges (2,3) and (3,1).                                        *)
ScenarioOutcome ==
  <<"ok", "ok", "CyclicDependency", "InvalidArgument", "ok", "ok">>

C8_ScenarioTrace ==
  \A p \in Callers :
    (pc[p] = "done" /\ scen >= 1)
    => /\ res[p].kind = ScenarioOutcome[scen]
       /\ scen = Len(Scenario) => edges = SetToBag({Edge(2, 3), Edge(3, 1)})

(* C9: under any interleaving of the storage calls of concurrent adds the    *)
(* edge set stays acyclic whenever an add has succeeded, and add(A, B) and   *)
(* add(B, A) in flight together never both succeed.                          *)
C9_ConcurrentAddsAcyclic ==
  /\ \A p \in Callers :
       (pc[p] = "done" /\ req[p].op = "add" /\ res[p].kind = "ok")
       => Acyclic(Stored)
  /\ \A p, q \in Callers :
       ~(/\ pc[p] = "done" /\ req[p].op = "add" /\ res[p].kind = "ok"
         /\ pc[q] = "done" /\ req[q].op = "add" /\ res[q].kind = "ok"
         /\ req[q].task_id = req[p].depends_on_task_id
         /\ req[q].depends_on_task_id = req[p].task_id)

(* C10: a list call made immediately after add(A, B) succeeded succeeds for  *)
(* A and for B and returns the edge (A, B) among the dependencies of A and   *)
(* among the dependents of B; a list call made immediately after             *)
(* remove(A, B) succeeded returns it neither among the dependencies of A nor *)
(* among the dependents of B.                                                *)
C10_QuerySymmetry ==
  \A p \in Callers :
    (pc[p] = "done" /\ req[p].op = "list")
    => LET t == req[p].task_id
           e == Edge(last.task_id, last.depends_on_task_id)
       IN /\ (last.op = "add" /\ t = last.task_id)
             => res[p].kind = "ok" /\ BagIn(e, res[p].dependencies)
          /\ (last.op = "add" /\ t = last.depends_on_task_id)
             => res[p].kind = "ok" /\ BagIn(e, res[p].dependents)
          /\ (last.op = "remove" /\ t = last.task_id)
             => ~BagIn(e, res[p].dependencies)
          /\ (last.op = "remove" /\ t = last.depends_on_task_id)
             => ~BagIn(e, res[p].dependents)

(* list(B) has answered right after remove(A, B) succeeded, and B still has  *)
(* other dependents                                                          *)
C10_Witness ==
  \E p \in Callers :
    /\ pc[p] = "done"
    /\ req[p].op = "list"
    /\ res[p].kind = "ok"
    /\ last.op = "remove"
    /\ req[p].task_id = last.depends_on_task_id
    /\ res[p].dependents # EmptyBag

(* list(A) has answered right after add(A, B) succeeded *)
C10_WitnessAdd ==
  \E p \in Callers :
    /\ pc[p] = "done"
    /\ req[p].op = "list"
    /\ last.op = "add"
    /\ req[p].task_id = last.task_id
    /\ BagIn(Edge(last.task_id, last.depends_on_task_id), res[p].dependencies)

-----------------------------------------------------------------------------
(* C11: list(T) succeeds for every existing task T and returns as            *)
(* dependencies exactly the stored edges with task_id = T and as dependents  *)
(* exactly the stored edges with depends_on_task_id = T; tasks reachable     *)
(* only through two or more edges are not included.                          *)
C11_DirectOnlyQueries ==
  \A p \in Callers :
    (pc[p] = "done" /\ req[p].op = "list" /\ req[p].task_id \in tasks)
    => /\ res[p].kind = "ok"
       /\ BagToSet(res[p].dependencies)
            = {e \in Stored : e.task_id = req[p].task_id}
       /\ BagToSet(res[p].dependents)
            = {e \in Stored : e.depends_on_task_id = req[p].task_id}

(* list(A) has answered with the edge to B alone while B -> C is stored and  *)
(* A -> C is not                                                             *)
C11_Witness ==
  \E p \in Callers : \E b, c \in tasks :
    /\ pc[p] = "done"
    /\ req[p].op = "list"
    /\ res[p].kind = "ok"
    /\ Edge(b, c) \in Stored
    /\ Edge(req[p].task_id, c) \notin Stored
    /\ c # req[p].task_id
    /\ BagToSet(res[p].dependencies) = {Edge(req[p].task_id, b)}

(* C12 as claimed: remove(A, B) of an edge that is not stored fails with     *)
(* NotFound and leaves the edge set unchanged, for every pair of ids,        *)
(* A = B and ids of nonexistent tasks included.                              *)
C12_RemoveMissingEdge ==
  [][\A p \in Callers :
       (Completes(p) /\ req'[p].op = "remove" /\ Arg(p)' \notin Stored)
       => /\ res'[p].kind = "NotFound"
          /\ edges' = edges]_vars

(* C12 amended: remove(A, B) of an edge that is not stored leaves the edge   *)
(* set unchanged and issues no delete; it fails with NotFound when A # B,    *)
(* ids of nonexistent tasks included, and with InvalidArgument before any    *)
(* storage call when A = B.                                                  *)
C12_RemoveMissingEdgeAmended ==
  [][\A p \in Callers :
       (Completes(p) /\ req'[p].op = "remove" /\ Arg(p)' \notin Stored)
       => /\ edges' = edges
          /\ io'[p].writes = 0
          /\ IF req'[p].task_id # req'[p].depends_on_task_id
             THEN res'[p] = DependencyNotFound
             ELSE res'[p] = InvalidArgument /\ io'[p] = NoIo]_vars

(* remove(A, B) of two distinct ids that name no task has returned NotFound *)
C12_Witness ==
  \E p \in Callers :
    /\ pc[p] = "done"
    /\ req[p].op = "remove"
    /\ req[p].task_id # req[p].depends_on_task_id
    /\ {req[p].task_id, req[p].depends_on_task_id} \cap tasks = {}
    /\ res[p] = DependencyNotFound
    /\ Stored # {}

(* C13: remove(A, B) of a stored edge succeeds and the edge set becomes the  *)
(* old one minus (A, B): every other edge keeps its rows.                    *)
C13_RemoveExactlyOne ==
  [][\A p \in Callers :
       (Completes(p) /\ req'[p].op = "remove" /\ Arg(p)' \in Stored)
       => /\ res'[p].kind = "ok"
          /\ edges' = Rows(edges, Stored \ {Arg(p)'})]_vars

(* remove(A, B) has succeeded while the reverse edge (B, A) and another edge *)
(* of A stay stored                                                          *)
C13_Witness ==
  \E p \in Callers : \E c \in tasks :
    /\ pc[p] = "done"
    /\ req[p].op = "remove"
    /\ res[p].kind = "ok"
    /\ Arg(p) \notin Stored
    /\ Edge(req[p].depends_on_task_id, req[p].task_id) \in Stored
    /\ c # req[p].depends_on_task_id
    /\ Edge(req[p].task_id, c) \in Stored

(* C14: every add, remove and list call terminates.  remove and list issue   *)
(* a fixed number of storage calls; the recursion of add terminates when no  *)
(* chain of active hasCircularDependency calls holds the same task twice     *)
(* (with the edge set unchanged, a call that is reached again from itself    *)
(* reads the same rows and recurses the same way, forever).                  *)
C14_Termination ==
  \A p \in Callers : \A i, j \in 1..Len(stack[p]) :
    (NoneInFlightBut(p) /\ i # j)
    => stack[p][i].dependsOnTaskId # stack[p][j].dependsOnTaskId

(* C15: an add or remove call that ends in any failure, a storage call that  *)
(* throws at any step included, leaves the edge set as it was before the     *)
(* call (with requests dispatched one at a time: the edge set changes only   *)
(* in the step that ends a call in success), and a call that fails a         *)
(* precondition has issued no insert and no delete.                          *)
C15_NoPartialState ==
  /\ [][edges' # edges
         => \E p \in Callers :
              /\ Completes(p)
              /\ res'[p].kind = "ok"
              /\ req'[p].op \in {"add", "remove"}]_vars
  /\ [][\A p \in Callers :
          (/\ Completes(p)
           /\ res'[p].kind \in {"InvalidArgument", "NotFound", "CyclicDependency"})
          => io'[p].writes = 0 /\ edges' = edges]_vars

(* the insert of an add threw after the cycle traversal read edges: nothing  *)
(* of the add is stored                                                      *)
C15_Witness ==
  \E p \in Callers :
    /\ pc[p] = "done"
    /\ req[p].op = "add"
    /\ res[p] = InternalError
    /\ io[p].writes = 1
    /\ io[p].reads >= 2
    /\ Arg(p) \notin Stored

(* C18: a storage call that throws ends its request: the handler issues that *)
(* call once and no storage call after it, the caller receives the           *)
(* InternalError (storage unavailable) failure, and the store and the other  *)
(* requests are as they were.                                                *)
C18_NoRetry ==
  /\ [][\A p \in Callers :
          io'[p].thrown > io[p].thrown
          => /\ pc'[p] = "done"
             /\ res'[p] = InternalError
             /\ io'[p].thrown = 1
             /\ edges' = edges /\ tasks' = tasks
             /\ \A q \in Callers \ {p} :
                  pc'[q] = pc[q] /\ res'[q] = res[q] /\ io'[q] = io[q]]_vars
  /\ [][\A p \in Callers :
          pc[p] = "done" => io'[p] \in {io[p], NoIo}]_vars

(* the cycle traversal of an add threw at its second read *)
C18_Witness ==
  \E p \in Callers :
    /\ pc[p] = "done"
    /\ req[p].op = "add"
    /\ res[p] = InternalError
    /\ io[p] = [lookups |-> 2, reads |-> 2, writes |-> 0, thrown |-> 1]

(* C16: list(T) for an id T that names no task fails with NotFound and       *)
(* reads no edges.                                                           *)
C16_ListMissingTask ==
  \A p \in Callers :
    (pc[p] = "done" /\ req[p].op = "list" /\ req[p].task_id \notin tasks)
    => res[p].kind = "NotFound" /\ io[p].reads = 0

(* C17: no step of an add, remove or list call, successful or failed,        *)
(* changes the set of tasks, and the step that ends an add in success        *)
(* changes the store by exactly one new row, the edge of the call.           *)
C17_TaskStateFramed ==
  /\ [][(\E p \in Callers : pc'[p] # pc[p] \/ io'[p] # io[p] \/ res'[p] # res[p])
         => tasks' = tasks]_vars
  /\ [][\A p \in Callers :
          (Completes(p) /\ req[p].op = "add" /\ res'[p].kind = "ok")
          => /\ edges' = edges (+) SetToBag({Arg(p)})
             /\ tasks' = tasks]_vars

(* an add has succeeded after a task was deleted, with another edge stored   *)
C17_Witness ==
  \E p \in Callers :
    /\ pc[p] = "done"
    /\ req[p].op = "add"
    /\ res[p].kind = "ok"
    /\ tasks # 1..NumTasks
    /\ Stored = {Arg(p)}

(* C19: both endpoints of every stored edge are tasks that exist, and the    *)
(* deletion of a task removes the edges that have it as task_id or as        *)
(* depends_on_task_id and no other edge, also when the task is deleted       *)
(* between the existence checks and the insert of an add in flight.          *)
C19_ReferentialIntegrity ==
  /\ [](\A e \in Stored : e.task_id \in tasks /\ e.depends_on_task_id \in tasks)
  /\ [][tasks' # tasks
         => \E t \in tasks :
              /\ tasks' = tasks \ {t}
              /\ edges' = Rows(edges, {e \in Stored :
                                         e.task_id # t /\ e.depends_on_task_id # t})]_vars

(* a task was deleted after both existence checks of an add passed: the      *)
(* store refused the insert, and an edge of the other tasks is still stored  *)
C19_Witness ==
  \E p \in Callers :
    /\ pc[p] = "done"
    /\ req[p].op = "add"
    /\ io[p].lookups = 2
    /\ io[p].writes = 1
    /\ res[p] = InternalError
    /\ (req[p].task_id \notin tasks \/ req[p].depends_on_task_id \notin tasks)
    /\ Stored # {}

(* C20: once the five components have registered their handlers, a          *)
(* call-tool request that names a tool listed under API Endpoints is routed  *)
(* to the operation of the component that owns the tool and does not end in  *)
(* MethodNotFound, and a list-tools request returns the tools of all five    *)
(* components.                                                               *)
C20_DocumentedToolsDispatchable ==
  \A p \in Callers :
    /\ (reply[p].method = "CallTool" /\ reply[p].name \in ApiEndpoints)
       => /\ reply[p].kind = "routed"
          /\ reply[p].name \in Tools(reply[p].component)
    /\ reply[p].method = "ListTools"
       => reply[p].tools
            = UNION {Tools(setupRequestHandlers[i]) :
                       i \in 1..Len(setupRequestHandlers)}

(* C22: started on any edge set, one with a directed cycle included, the     *)
(* cycle check of an add visits each task at most once: the add reads the    *)
(* rows of at most as many tasks as there are, and so ends with a verdict.   *)
C22_VisitsEachTaskOnce ==
  \A p \in Callers :
    LET entered == IF stack[p] # <<>> /\ stack[p][Len(stack[p])].pending
                   THEN 1 ELSE 0
    IN req[p].op = "add" => io[p].reads + entered <= NumTasks

(* C23: add checks, in this order, that the two ids differ, that task_id     *)
(* exists, that depends_on_task_id exists, that no cycle would arise, and    *)
(* then inserts; it reports the first check that fails: add(X, X) ends in    *)
(* InvalidArgument without a storage call, also when X is missing; add(A, B) *)
(* with a missing endpoint ends in NotFound naming the first missing one,    *)
(* never in CyclicDependency; edges are read only after the three checks     *)
(* passed, and the insert comes only after the traversal.                    *)
C23_PreconditionOrder ==
  \A p \in Callers :
    LET a == req[p].task_id
        b == req[p].depends_on_task_id
    IN req[p].op = "add"
       => /\ (pc[p] = "done" /\ a = b)
             => res[p] = InvalidArgument /\ io[p] = NoIo
          /\ (pc[p] = "done" /\ a # b /\ a \notin tasks)
             => /\ res[p] = TaskNotFound(a)
                /\ io[p] = [NoIo EXCEPT !.lookups = 1]
          /\ (pc[p] = "done" /\ a # b /\ a \in tasks /\ b \notin tasks)
             => /\ res[p] = TaskNotFound(b)
                /\ io[p] = [NoIo EXCEPT !.lookups = 2]
          /\ io[p].reads > 0
             => a # b /\ a \in tasks /\ b \in tasks /\ io[p].lookups = 2
          /\ io[p].writes > 0 => io[p].reads > 0

(* add(A, B) with both endpoints missing has reported A *)
C23_Witness ==
  \E p \in Callers :
    /\ pc[p] = "done"
    /\ req[p].op = "add"
    /\ req[p].task_id # req[p].depends_on_task_id
    /\ req[p].task_id \notin tasks
    /\ req[p].depends_on_task_id \notin tasks
    /\ res[p] = TaskNotFound(req[p].task_id)

(* C24: however two add(A, B) calls of different callers interleave, an add  *)
(* that reports success has stored a pair that was not stored, as its one    *)
(* copy, and an add whose insert finds the pair stored ends in a failure and *)
(* stores nothing: of two concurrent add(A, B) at most one succeeds and at   *)
(* most one edge (A, B) is stored.                                           *)
C24_ConcurrentIdenticalAdds ==
  /\ [][\A p \in Callers :
          (Completes(p) /\ req[p].op = "add" /\ res'[p].kind = "ok")
          => /\ Arg(p) \notin Stored
             /\ CopiesIn(Arg(p), edges') = 1]_vars
  /\ [][\A p \in Callers :
          (pc[p] = "add_createTaskDependency" /\ pc'[p] = "done" /\ Arg(p) \in Stored)
          => /\ res'[p].kind \notin {"ok", "none"}
             /\ edges' = edges]_vars

(* two add(A, B) were in flight together: one stored the edge, the insert of *)
(* the other was refused                                                     *)
C24_Witness ==
  \E p, q \in Callers :
    /\ p # q
    /\ pc[p] = "done" /\ pc[q] = "done"
    /\ req[p].op = "add" /\ req[q] = req[p]
    /\ res[p].kind = "ok" /\ io[p].writes = 1
    /\ res[q].kind = "InternalError" /\ io[q].writes = 1
    /\ CopiesIn(Arg(p), edges) = 1

(* C25: however two remove(A, B) calls of different callers interleave, a    *)
(* remove that reports success has itself deleted the row (A, B): of two     *)
(* concurrent removes of a stored edge one succeeds and the other fails with *)
(* NotFound.                                                                 *)
C25_RemoveReportsOwnDelete ==
  [][\A p \in Callers :
       (Completes(p) /\ req[p].op = "remove" /\ res'[p].kind = "ok")
       => /\ Arg(p) \in Stored
          /\ Arg(p) \notin BagToSet(edges')]_vars

(* a register_agent request as the tool declares it: string agent_id, name   *)
(* and system, and one or more capabilities with string name and description *)
(* (and a string version when one is given)                                  *)
WellFormedRegister(args) ==
  /\ IsString(args.agent_id) /\ IsString(args.name) /\ IsString(args.system)
  /\ Len(args.capabilities) > 0
  /\ \A i \in 1..Len(args.capabilities) :
       /\ IsString(args.capabilities[i].name)
       /\ IsString(args.capabilities[i].description)
       /\ args.capabilities[i].version.type \in {"undefined", "string"}

(* C21: a well-formed register_agent request for an agent_id that is not     *)
(* registered makes exactly one createAgent call, with a record of exactly   *)
(* agent_id, name, capabilities and system as given, status 'active',        *)
(* last_active and created_at, and returns a single text content item.       *)
C21_RegisterCreatesAgent ==
  [][\A p \in Callers :
       (/\ Completes(p)
        /\ req[p].op = "register_agent"
        /\ WellFormedRegister(req[p])
        /\ ~getAgent(req[p].agent_id.value))
       => /\ res'[p].kind = "ok"
          /\ Len(res'[p].content) = 1
          /\ res'[p].content[1].type = "text"
          /\ Len(createAgentCalls'[p]) = 1
          /\ LET agent == createAgentCalls'[p][1]
             IN /\ DOMAIN agent = AgentColumns
                /\ agent.agent_id = req[p].agent_id.value
                /\ agent.name = req[p].name
                /\ agent.capabilities = req[p].capabilities
                /\ agent.system = req[p].system
                /\ agent.status = "active"
                /\ agent.last_active \in 0..MaxClock
                /\ agent.created_at \in 0..MaxClock]_vars

(* C26: register_agent for an agent_id that its lookup finds registered ends *)
(* in 'already exists' without a createAgent call and leaves the table as it *)
(* is; in every state reached by register_agent and update_agent calls of    *)
(* concurrent callers there is at most one row per agent_id, and no step     *)
(* removes a row or changes its created_at.                                  *)
C26_AgentIdUnique ==
  /\ [][\A p \in Callers :
          (/\ pc[p] = "register_getAgent"
           /\ pc'[p] # pc[p]
           /\ getAgent(req[p].agent_id.value))
          => /\ pc'[p] = "done"
             /\ res'[p] = InvalidParams("already exists")
             /\ createAgentCalls'[p] = <<>>
             /\ io'[p].writes = 0
             /\ agents' = agents]_vars
  /\ [](\A r1, r2 \in BagToSet(agents) :
          /\ CopiesIn(r1, agents) = 1
          /\ r1.agent_id = r2.agent_id => r1 = r2)
  /\ [][\A row \in BagToSet(agents) :
          \E kept \in BagToSet(agents') :
            /\ kept.agent_id = row.agent_id
            /\ kept.created_at = row.created_at]_vars

(* two register_agent calls for one agent_id both passed the lookup, and the *)
(* insert of the second was refused                                          *)
C26_Witness ==
  \E p, q \in Callers :
    /\ p # q
    /\ pc[p] = "done" /\ pc[q] = "done"
    /\ req[p].op = "register_agent" /\ req[q].op = "register_agent"
    /\ req[p].agent_id = req[q].agent_id
    /\ res[p].kind = "ok"
    /\ res[q] = Failed /\ io[q].writes = 1
    /\ now > 0

(* an update_agent changed the name and last_active of a registered agent    *)
(* after the time it was created                                             *)
C26_WitnessUpdate ==
  \E row \in BagToSet(agents) :
    /\ row.name = String("n2")
    /\ row.last_active > row.created_at

(* C27: in every state that create_context, share_context and                *)
(* update_context calls reach and in which no call is running, a storage     *)
(* failure between the two writes of create_context included, every stored   *)
(* shared context has an access row of its creator with level 'write'.       *)
C27_CreatorKeepsWriteAccess ==
  (\A p \in Callers : pc[p] \in {"idle", "done"})
  => \A context \in shared_context :
       [agent_id |-> context.created_by, context_id |-> context.context_id,
        access_level |-> "write"] \in agent_context_access

(* C28: a message row appears only in the last step of a send_message whose  *)
(* sender and recipient are registered agents, with read_status false; a     *)
(* message whose read_status is true keeps it as long as the row is stored;  *)
(* and mark_message_read of a message that is already read leaves the table  *)
(* as it is.                                                                 *)
C28_ReadStatusMonotone ==
  /\ [][\A row \in messages' :
          (\A old \in messages : old.message_id # row.message_id)
          => /\ row.read_status = FALSE
             /\ getAgent(row.from_agent_id) /\ getAgent(row.to_agent_id)
             /\ \E p \in Callers :
                  /\ Completes(p)
                  /\ req[p].op = "send_message"
                  /\ res'[p].kind = "ok"]_vars
  /\ [][\A row \in messages : \A kept \in messages' :
          (row.read_status /\ kept.message_id = row.message_id)
          => kept.read_status]_vars
  /\ [][\A p \in Callers :
          (/\ pc[p] = "markMessageRead_markMessageRead"
           /\ pc'[p] = "done"
           /\ \E row \in messages :
                row.message_id = req[p].message_id.value /\ row.read_status)
          => messages' = messages]_vars

(* both callers have marked the same stored message as read *)
C28_Witness ==
  \E p, q \in Callers :
    /\ p # q
    /\ pc[p] = "done" /\ pc[q] = "done"
    /\ req[p].op = "mark_message_read" /\ req[q] = req[p]
    /\ res[p].kind = "ok" /\ res[q].kind = "ok"
    /\ \E row \in messages :
         row.message_id = req[p].message_id.value /\ row.read_status

====
